---- MODULE Spec2Model ----
(***************************************************************************)
(* The duplex voice session of src/components/CallInterface.tsx: the       *)
(* lifecycle (handleStartCall, onopen, onclose, onerror, handleEndCall and *)
(* its performCleanup), the playback cursor and ActiveSourceSet driven by  *)
(* onmessage, the transcript accumulators, and the elapsed ticker.         *)
(* Time is counted in whole seconds; text is a sequence of characters.     *)
(***************************************************************************)
EXTENDS Integers, Sequences, FiniteSets, TLC

\* ---------------------------------------------------------------- bounds
\* Spec (the whole lifecycle): messages received, seconds of playback
\* clock, ticks of the elapsed ticker, clicks on the end button
MaxMsgs == 1
MaxLifeTime == 1
MaxElapsed == 1
MaxClicks == 1
\* SpecPlayback: messages received, seconds of playback clock
MaxChunks == 3
MaxTime == 2
\* SpecTranscript: messages received
MaxTextMsgs == 2
\* SpecScenario: messages received, seconds of playback clock
MaxScenarioMsgs == 3
MaxScenarioTime == 3
\* SpecBilling: ticks of the elapsed ticker
MaxBillingSeconds == 90
\* SpecCapture: microphone frames delivered
MaxFrames == 3
\* SpecSpeaking: messages received, seconds of playback clock
MaxSpeakMsgs == 2
MaxSpeakTime == 1
\* SpecDecode: messages received, seconds of playback clock
MaxDecodeMsgs == 3
MaxDecodeTime == 2

\* ------------------------------------------------------ program constants
SecondsPerMinute == 60

VARIABLES
    \* React state
    status, error, isSpeaking, elapsed, transcripts,
    \* refs
    isEndingRef, startedRef, elapsedRef, nextStartTimeRef,
    currentInputTrans, currentOutputTrans,
    audioContextRef, sessionRef, streamRef, activeSources, timerRef,
    transcriptsRef,
    \* the environment the component drives
    user, mounted, mic, chan, ctx, timerLive, now,
    \* positions of the asynchronous functions
    startPc, cleanupPc, decoding,
    \* what has happened so far
    arrivals, epoch, sched, clicks, remoteErrors, closeEvents,
    teardowns, summarySets, micStops, closeCalls, deductReq, deductFailed,
    analysisCalls, endedEvents, turns, failedStep, dropped,
    \* microphone frames: captured, waiting for the session, sent
    framesCaptured, framesQueued, framesSent,
    \* the effect re-run of StrictMode and its second handleStartCall
    remounts, startPc2, mic2, chan2,
    \* the user's credits document and the Dashboard's low-credit modal
    balance, showLowCreditModal,
    \* handleUnlockReport: React state, the state the committed render shows,
    \* the position of each invocation, what the unlocks have deducted
    isReportUnlocked, isUnlocking, unlockError, unlockShown, unlockPc,
    unlockDeducted,
    \* approveRequest: the request document, the position of each invocation,
    \* the grants and commissions written
    reqStatus, reqCoupon, approvePc, grants, commissions

reactVars == <<status, error, isSpeaking, elapsed, transcripts>>
refVars == <<isEndingRef, startedRef, elapsedRef, nextStartTimeRef,
             currentInputTrans, currentOutputTrans, audioContextRef,
             sessionRef, streamRef, activeSources, timerRef, transcriptsRef>>
envVars == <<user, mounted, mic, chan, ctx, timerLive, now>>
pcVars == <<startPc, cleanupPc, decoding>>
histVars == <<arrivals, epoch, sched, clicks, remoteErrors, closeEvents,
              teardowns, summarySets, micStops, closeCalls, deductReq,
              deductFailed, analysisCalls, endedEvents, turns, failedStep,
              dropped>>
frameVars == <<framesCaptured, framesQueued, framesSent>>
strictVars == <<remounts, startPc2, mic2, chan2>>
ledgerVars == <<balance, showLowCreditModal>>
unlockVars == <<isReportUnlocked, isUnlocking, unlockError, unlockShown,
                unlockPc, unlockDeducted>>
adminVars == <<reqStatus, reqCoupon, approvePc, grants, commissions>>
creditVars == <<ledgerVars, unlockVars, adminVars>>
vars == <<reactVars, refVars, envVars, pcVars, histVars, frameVars, strictVars,
          creditVars>>

\* ---------------------------------------------------------------- helpers
Max(a, b) == IF a >= b THEN a ELSE b

RECURSIVE Gcd(_, _)
Gcd(a, b) == IF b = 0 THEN a ELSE Gcd(b, a % b)

RECURSIVE TrimStart(_)
TrimStart(s) ==
    IF s # <<>> /\ Head(s) = " " THEN TrimStart(Tail(s)) ELSE s

RECURSIVE TrimEnd(_)
TrimEnd(s) ==
    IF s # <<>> /\ s[Len(s)] = " " THEN TrimEnd(SubSeq(s, 1, Len(s) - 1)) ELSE s

\* String.prototype.trim
Trim(s) == TrimEnd(TrimStart(s))

\* the amount rounded to whole minutes
CreditsRounded(seconds) ==
    [num |-> (2 * seconds + SecondsPerMinute) \div (2 * SecondsPerMinute),
     den |-> 1]

\* line 109: elapsedRef.current / 60, kept exact as a fraction in lowest terms
CreditsToDeduct(seconds) ==
    LET g == Gcd(seconds, SecondsPerMinute)
    IN  [num |-> seconds \div g, den |-> SecondsPerMinute \div g]

\* auth.currentUser: absent, an anonymous (guest) identity, or a signed-in one
Users == {"none", "guest", "member"}

\* credits are kept in sixtieths of a credit, the credit price of one second
CreditUnit == SecondsPerMinute

\* line 171: increment(-10)
UnlockCost == 10 * CreditUnit

\* req.credits of the purchase request under approval
RequestCredits == 10 * CreditUnit

\* the balances a users document starts a visit with
Balances == {0, CreditUnit, UnlockCost}

\* invocations of handleUnlockReport and of approveRequest that are followed
MaxUnlocks == 2
MaxApprovals == 2

\* useState(false), useState(null), useState(false) of lines 39-41; no
\* invocation of handleUnlockReport or approveRequest has started
InitCredits ==
    /\ showLowCreditModal = FALSE
    /\ isReportUnlocked = FALSE /\ isUnlocking = FALSE /\ unlockError = "none"
    /\ unlockShown = [isReportUnlocked |-> FALSE, isUnlocking |-> FALSE]
    /\ unlockPc = [i \in 1..MaxUnlocks |-> "idle"]
    /\ unlockDeducted = 0
    /\ reqStatus = "pending"
    /\ approvePc = [i \in 1..MaxApprovals |-> "idle"]
    /\ grants = 0 /\ commissions = 0

InitView ==
    /\ status = "idle" /\ error = FALSE /\ isSpeaking = FALSE
    /\ elapsed = 0 /\ transcripts = <<>>
    /\ isEndingRef = FALSE /\ startedRef = FALSE
    /\ elapsedRef = 0 /\ nextStartTimeRef = 0
    /\ currentInputTrans = <<>> /\ currentOutputTrans = <<>>
    /\ audioContextRef = FALSE /\ sessionRef = FALSE /\ streamRef = FALSE
    /\ activeSources = {} /\ timerRef = FALSE /\ transcriptsRef = <<>>
    /\ user \in Users
    /\ mic = "none" /\ chan = "none" /\ ctx = "none"
    /\ timerLive = FALSE /\ now = 0
    /\ startPc = "init" /\ cleanupPc = "none" /\ decoding = {}
    /\ arrivals = 0 /\ epoch = 0 /\ sched = <<>> /\ clicks = 0
    /\ remoteErrors = 0 /\ closeEvents = 0
    /\ teardowns = 0 /\ summarySets = 0 /\ micStops = 0 /\ closeCalls = 0
    /\ deductReq = <<>> /\ deductFailed = 0 /\ analysisCalls = <<>>
    /\ endedEvents = {} /\ turns = 0
    /\ failedStep = "none" /\ dropped = {}
    /\ framesCaptured = 0 /\ framesQueued = <<>> /\ framesSent = <<>>
    /\ remounts = 0 /\ startPc2 = "none" /\ mic2 = "none" /\ chan2 = "none"
    /\ InitCredits

\* the call view right after it was mounted, the user holding one credit
Init ==
    /\ InitView
    /\ mounted = TRUE
    /\ balance = CreditUnit /\ reqCoupon = FALSE

\* ------------------------------------------------------------ handleEndCall
\* the test without !currentUser.isAnonymous
BillableAnyIdentity == user # "none" /\ elapsedRef > 0

\* line 108: currentUser && !currentUser.isAnonymous && elapsedRef.current > 0
Billable == user = "member" /\ elapsedRef > 0

\* the transcript handed to the analysis before the deduction has settled
CleanupAnalysisFirst ==
    IF Billable
    THEN /\ deductReq' = Append(deductReq, CreditsToDeduct(elapsedRef))
         /\ cleanupPc' = "awaitDeduct"
         /\ analysisCalls' = Append(analysisCalls, transcriptsRef)
    ELSE /\ deductReq' = deductReq
         /\ cleanupPc' = "done"
         /\ analysisCalls' = Append(analysisCalls, transcriptsRef)

\* lines 107-114 of performCleanup, up to its next await (or to its end)
CleanupFromLedger ==
    IF Billable
    THEN /\ deductReq' = Append(deductReq, CreditsToDeduct(elapsedRef))
         /\ cleanupPc' = "awaitDeduct"
         /\ analysisCalls' = analysisCalls
    ELSE /\ deductReq' = deductReq
         /\ cleanupPc' = "done"
         /\ analysisCalls' = Append(analysisCalls, transcriptsRef)

\* the latch test left out
AlreadyEndingIgnored == FALSE

\* line 86: the single-shot latch test
AlreadyEnding == isEndingRef

endVars == <<isEndingRef, status, timerLive, mic, activeSources, ctx,
             audioContextRef, chan, cleanupPc, closeCalls, deductReq,
             analysisCalls, teardowns, summarySets, micStops, failedStep>>

\* The steps of the synchronous part of handleEndCall that can throw when
\* they run: AudioBufferSourceNode.stop (line 93) and the close of an audio
\* context (lines 97-98; the contexts may be webkitAudioContext, line 350).
\* clearInterval and MediaStreamTrack.stop have no failing outcome.
TeardownFailures == {"none", "source", "context"}

\* handleEndCall, with performCleanup run up to its first await.
\* chanNow is the channel's state when the handler is entered. A throw of
\* s.stop() is caught on line 93; nothing catches a throw of close(), which
\* leaves the handler before line 99 and before performCleanup is called.
HandleEndCall(chanNow) ==
    IF AlreadyEnding
    THEN /\ chan' = chanNow
         /\ UNCHANGED <<isEndingRef, status, timerLive, mic, activeSources,
                        ctx, audioContextRef, cleanupPc, closeCalls,
                        deductReq, analysisCalls, teardowns, summarySets,
                        micStops, failedStep>>
    ELSE \E fail \in TeardownFailures :
         /\ fail = "source" => activeSources # {}
         /\ fail = "context" => audioContextRef
         /\ failedStep' = fail
         /\ isEndingRef' = TRUE
         /\ teardowns' = teardowns + 1
         /\ status' = "summary"
         /\ summarySets' = summarySets + 1
         /\ timerLive' = IF timerRef THEN FALSE ELSE timerLive
         /\ IF streamRef /\ mic = "live"
            THEN mic' = "stopped" /\ micStops' = micStops + 1
            ELSE UNCHANGED <<mic, micStops>>
         /\ activeSources' = {}
         /\ IF fail = "context"
            THEN /\ chan' = chanNow
                 /\ UNCHANGED <<ctx, audioContextRef, cleanupPc, closeCalls,
                                deductReq, analysisCalls>>
            ELSE /\ IF audioContextRef
                    THEN ctx' = "closed" /\ audioContextRef' = FALSE
                    ELSE UNCHANGED <<ctx, audioContextRef>>
                 /\ IF sessionRef
                    THEN /\ closeCalls' = closeCalls + 1
                         /\ chan' = IF chanNow = "open"
                                    THEN "closing" ELSE chanNow
                         /\ cleanupPc' = "awaitClose"
                         /\ UNCHANGED <<deductReq, analysisCalls>>
                    ELSE /\ chan' = chanNow
                         /\ closeCalls' = closeCalls
                         /\ CleanupFromLedger

\* the rest of vars, which handleEndCall never writes
notEndVars == <<error, isSpeaking, elapsed, transcripts, startedRef,
                elapsedRef, nextStartTimeRef, currentInputTrans,
                currentOutputTrans, sessionRef, streamRef, timerRef,
                transcriptsRef, user, now, startPc, decoding, arrivals,
                epoch, sched, deductFailed, endedEvents, turns, dropped, frameVars, strictVars,
                   creditVars>>

\* line 593: the end button of the call view (rendered unless status is
\* summary); the mount effect has called handleStartCall before any click
EndClick ==
    /\ mounted /\ clicks < MaxClicks
    /\ startPc # "init"
    /\ clicks' = clicks + 1
    /\ HandleEndCall(chan)
    /\ UNCHANGED <<notEndVars, mounted, remoteErrors, closeEvents>>

\* line 430: onclose, the channel reports closure
OnClose ==
    /\ chan \in {"open", "closing"}
    /\ closeEvents' = closeEvents + 1
    /\ IF ~isEndingRef
       THEN HandleEndCall("closed")
       ELSE chan' = "closed" /\
            UNCHANGED <<isEndingRef, status, timerLive, mic, activeSources,
                        ctx, audioContextRef, cleanupPc, closeCalls,
                        deductReq, analysisCalls, teardowns, summarySets,
                        micStops, failedStep>>
    /\ UNCHANGED <<notEndVars, mounted, clicks, remoteErrors>>

\* line 429: onerror only records the error message
OnError ==
    /\ chan \in {"connecting", "open"}
    /\ remoteErrors = 0
    /\ remoteErrors' = 1
    /\ error' = TRUE
    /\ UNCHANGED <<status, isSpeaking, elapsed, transcripts, refVars, envVars,
                   pcVars, arrivals, epoch, sched, clicks, closeEvents,
                   teardowns, summarySets, micStops, closeCalls, deductReq,
                   deductFailed, analysisCalls, endedEvents, turns,
                   failedStep, dropped, frameVars, strictVars,
                   creditVars>>

\* line 453: the cleanup of the mount effect, which ran handleStartCall
Unmount ==
    /\ mounted
    /\ startPc # "init"
    /\ mounted' = FALSE
    /\ IF ~isEndingRef THEN HandleEndCall(chan) ELSE UNCHANGED endVars
    /\ UNCHANGED <<notEndVars, clicks, remoteErrors, closeEvents>>

\* lines 104-105 then 107-114: session.close() settled (resolved or thrown,
\* both swallowed)
CleanupCloseDone ==
    /\ cleanupPc = "awaitClose"
    /\ sessionRef' = FALSE
    /\ CleanupFromLedger
    /\ UNCHANGED <<reactVars, isEndingRef, startedRef, elapsedRef,
                   nextStartTimeRef, currentInputTrans, currentOutputTrans,
                   audioContextRef, streamRef, activeSources, timerRef,
                   transcriptsRef, envVars, startPc, decoding, arrivals,
                   epoch, sched, clicks, remoteErrors, closeEvents, teardowns,
                   summarySets, micStops, closeCalls, deductFailed,
                   endedEvents, turns, failedStep, dropped, frameVars, strictVars,
                   creditVars>>

\* line 111: increment(-creditsToDeduct), applied to the document as it is
\* when the write lands, with no test of the balance
BalanceAfterDeduction ==
    LET c == deductReq[Len(deductReq)]
    IN  balance - (c.num * CreditUnit) \div c.den

\* lines 110-114: updateDoc settled; a rejection is swallowed
CleanupDeductDone(ok) ==
    /\ cleanupPc = "awaitDeduct"
    /\ cleanupPc' = "done"
    /\ deductFailed' = IF ok THEN deductFailed ELSE deductFailed + 1
    /\ balance' = IF ok THEN BalanceAfterDeduction ELSE balance
    /\ analysisCalls' = Append(analysisCalls, transcriptsRef)
    /\ UNCHANGED <<reactVars, refVars, envVars, startPc, decoding, arrivals,
                   epoch, sched, clicks, remoteErrors, closeEvents, teardowns,
                   summarySets, micStops, closeCalls, deductReq, endedEvents,
                   turns, failedStep, dropped, frameVars, strictVars,
                   showLowCreditModal, unlockVars, adminVars>>

\* ---------------------------------------------------------- handleStartCall
\* lines 335-347: the mount effect calls handleStartCall, which runs up to
\* the await of getUserMedia; without an API key it throws into the catch.
StartCall(hasKey) ==
    /\ startPc = "init" /\ mounted
    /\ ~startedRef
    /\ IF hasKey
       THEN /\ error' = FALSE
            /\ status' = "connecting"
            /\ mic' = "pending"
            /\ startPc' = "awaitMic"
       ELSE /\ error' = TRUE
            /\ status' = "idle"
            /\ mic' = mic
            /\ startPc' = "failed"
    /\ UNCHANGED <<isSpeaking, elapsed, transcripts, refVars, user, mounted,
                   chan, ctx, timerLive, now, cleanupPc, decoding, histVars, frameVars, strictVars,
                   creditVars>>

\* lines 348-356: the microphone is granted; the stream and the two audio
\* contexts are stored and the channel handshake begins.
MicGranted ==
    /\ startPc = "awaitMic"
    /\ mic' = "live"
    /\ streamRef' = TRUE
    /\ ctx' = "open"
    /\ audioContextRef' = TRUE
    /\ chan' = "connecting"
    /\ startPc' = "awaitSession"
    /\ UNCHANGED <<reactVars, isEndingRef, startedRef, elapsedRef,
                   nextStartTimeRef, currentInputTrans, currentOutputTrans,
                   sessionRef, activeSources, timerRef, transcriptsRef, user,
                   mounted, timerLive, now, cleanupPc, decoding, histVars, frameVars, strictVars,
                   creditVars>>

\* lines 445-448: getUserMedia rejects; the catch sets the error and 'idle'
MicDenied ==
    /\ startPc = "awaitMic"
    /\ mic' = "denied"
    /\ error' = TRUE
    /\ status' = "idle"
    /\ startPc' = "failed"
    /\ UNCHANGED <<isSpeaking, elapsed, transcripts, refVars, user, mounted,
                   chan, ctx, timerLive, now, cleanupPc, decoding, histVars, frameVars, strictVars,
                   creditVars>>

\* onopen without the test of the latch
OnOpenUnguarded ==
    /\ chan = "connecting"
    /\ chan' = "open"
    /\ IF FALSE
       THEN UNCHANGED <<status, startedRef, timerRef, timerLive>>
       ELSE /\ status' = "active"
            /\ startedRef' = TRUE
            /\ timerRef' = TRUE
            /\ timerLive' = TRUE
    /\ UNCHANGED <<error, isSpeaking, elapsed, transcripts, isEndingRef,
                   elapsedRef, nextStartTimeRef, currentInputTrans,
                   currentOutputTrans, audioContextRef, sessionRef, streamRef,
                   activeSources, transcriptsRef, user, mounted, mic, ctx,
                   now, pcVars, histVars, frameVars, strictVars,
                   creditVars>>

\* lines 359-382: onopen
OnOpen ==
    /\ chan = "connecting"
    /\ chan' = "open"
    /\ IF isEndingRef
       THEN UNCHANGED <<status, startedRef, timerRef, timerLive>>
       ELSE /\ status' = "active"
            /\ startedRef' = TRUE
            /\ timerRef' = TRUE
            /\ timerLive' = TRUE
    /\ UNCHANGED <<error, isSpeaking, elapsed, transcripts, isEndingRef,
                   elapsedRef, nextStartTimeRef, currentInputTrans,
                   currentOutputTrans, audioContextRef, sessionRef, streamRef,
                   activeSources, transcriptsRef, user, mounted, mic, ctx,
                   now, pcVars, histVars, frameVars, strictVars,
                   creditVars>>

\* line 444 and lines 376-378: the connect promise resolves once the channel
\* has opened; the session is stored, whatever has happened since, and the
\* frames waiting on sessionPromise.then are sent in the order they waited.
SessionResolved ==
    /\ startPc = "awaitSession"
    /\ chan \in {"open", "closing", "closed"}
    /\ sessionRef' = TRUE
    /\ startPc' = "done"
    /\ framesSent' = framesSent \o framesQueued
    /\ framesQueued' = <<>>
    /\ UNCHANGED <<reactVars, isEndingRef, startedRef, elapsedRef,
                   nextStartTimeRef, currentInputTrans, currentOutputTrans,
                   audioContextRef, streamRef, activeSources, timerRef,
                   transcriptsRef, envVars, cleanupPc, decoding, histVars,
                   framesCaptured, strictVars,
                   creditVars>>

\* the test of the latch left out of onaudioprocess
CapturingNeverStopped == FALSE

\* line 373: onaudioprocess returns once the teardown has started
CapturingStopped == isEndingRef

\* lines 372-379: onaudioprocess, wired in onopen, delivers one frame of
\* microphone samples (events already queued are still delivered while the
\* close of the input context settles); the frame is sent by the reaction
\* on sessionPromise, at once if the promise has resolved.
AudioProcess ==
    /\ startedRef
    /\ framesCaptured' = framesCaptured + 1
    /\ IF CapturingStopped
       THEN UNCHANGED <<framesQueued, framesSent>>
       ELSE IF startPc = "done"
       THEN /\ framesSent' = Append(framesSent, framesCaptured + 1)
            /\ framesQueued' = framesQueued
       ELSE /\ framesQueued' = Append(framesQueued, framesCaptured + 1)
            /\ framesSent' = framesSent
    /\ UNCHANGED <<reactVars, refVars, envVars, pcVars, histVars, strictVars,
                   creditVars>>

\* lines 445-448: the handshake fails and the connect promise rejects
ConnectFailed ==
    /\ startPc = "awaitSession"
    /\ chan = "connecting"
    /\ chan' = "failed"
    /\ error' = TRUE
    /\ status' = "idle"
    /\ startPc' = "failed"
    /\ UNCHANGED <<isSpeaking, elapsed, transcripts, refVars, user, mounted,
                   mic, ctx, timerLive, now, cleanupPc, decoding, histVars, frameVars, strictVars,
                   creditVars>>

\* lines 363-368: one firing of the 1 Hz interval
TimerTick ==
    /\ timerLive
    /\ elapsed' = elapsed + 1
    /\ elapsedRef' = elapsed + 1
    /\ UNCHANGED <<status, error, isSpeaking, transcripts, isEndingRef,
                   startedRef, nextStartTimeRef, currentInputTrans,
                   currentOutputTrans, audioContextRef, sessionRef, streamRef,
                   activeSources, timerRef, transcriptsRef, envVars, pcVars,
                   histVars, frameVars, strictVars,
                   creditVars>>

\* src/unnamed/part_004 line 560 and part_005 line 316: the interval of the
\* other copies of the component, setElapsed(e => e + 1), which leaves
\* elapsedRef alone
TimerTickStateOnly ==
    /\ timerLive
    /\ elapsed' = elapsed + 1
    /\ UNCHANGED <<status, error, isSpeaking, transcripts, refVars, envVars,
                   pcVars, histVars, frameVars, strictVars,
                   creditVars>>

\* line 388: outputCtx.currentTime advances while the context is running
ClockAdvance ==
    /\ ctx = "open"
    /\ now' = now + 1
    /\ UNCHANGED <<reactVars, refVars, user, mounted, mic, chan, ctx,
                   timerLive, pcVars, histVars, frameVars, strictVars,
                   creditVars>>

\* line 59: the effect that copies the rendered transcript into its ref
TranscriptsEffect ==
    /\ mounted
    /\ transcriptsRef # transcripts
    /\ transcriptsRef' = transcripts
    /\ UNCHANGED <<reactVars, isEndingRef, startedRef, elapsedRef,
                   nextStartTimeRef, currentInputTrans, currentOutputTrans,
                   audioContextRef, sessionRef, streamRef, activeSources,
                   timerRef, envVars, pcVars, histVars, frameVars, strictVars,
                   creditVars>>

\* ------------------------------------------- the mount effect run twice
\* src/index.tsx lines 41-45 render the application in React.StrictMode:
\* in a development build the mount effect of lines 451-454 is run, cleaned
\* up and run again at once, on the same refs and state. The second run
\* calls handleStartCall again (lines 335-347) while the first call is
\* still at its first await (or has failed for want of a key).
StrictRemount ==
    /\ ~mounted /\ remounts = 0
    /\ startPc \in {"awaitMic", "failed"} /\ mic \in {"none", "pending"}
    /\ ~startedRef
    /\ mounted' = TRUE
    /\ remounts' = 1
    /\ IF startPc = "awaitMic"
       THEN /\ error' = FALSE
            /\ status' = "connecting"
            /\ mic2' = "pending"
            /\ startPc2' = "awaitMic"
       ELSE /\ error' = TRUE
            /\ status' = "idle"
            /\ mic2' = mic2
            /\ startPc2' = "failed"
    /\ UNCHANGED <<isSpeaking, elapsed, transcripts, refVars, user, mic, chan,
                   ctx, timerLive, now, pcVars, histVars, frameVars, creditVars, chan2>>

\* lines 348-356 in the second call: its microphone is granted
MicGrantedAgain ==
    /\ startPc2 = "awaitMic"
    /\ mic2' = "live"
    /\ streamRef' = TRUE
    /\ ctx' = "open"
    /\ audioContextRef' = TRUE
    /\ chan2' = "connecting"
    /\ startPc2' = "awaitSession"
    /\ UNCHANGED <<reactVars, isEndingRef, startedRef, elapsedRef,
                   nextStartTimeRef, currentInputTrans, currentOutputTrans,
                   sessionRef, activeSources, timerRef, transcriptsRef, user,
                   mounted, mic, chan, timerLive, now, pcVars, histVars,
                   frameVars, creditVars, remounts>>

\* lines 445-448 in the second call: its getUserMedia rejects
MicDeniedAgain ==
    /\ startPc2 = "awaitMic"
    /\ mic2' = "denied"
    /\ error' = TRUE
    /\ status' = "idle"
    /\ startPc2' = "failed"
    /\ UNCHANGED <<isSpeaking, elapsed, transcripts, refVars, envVars, pcVars,
                   histVars, frameVars, creditVars, remounts, chan2>>

\* lines 359-382: onopen of the second channel
OnOpenAgain ==
    /\ chan2 = "connecting"
    /\ chan2' = "open"
    /\ IF isEndingRef
       THEN UNCHANGED <<status, startedRef, timerRef, timerLive>>
       ELSE /\ status' = "active"
            /\ startedRef' = TRUE
            /\ timerRef' = TRUE
            /\ timerLive' = TRUE
    /\ UNCHANGED <<error, isSpeaking, elapsed, transcripts, isEndingRef,
                   elapsedRef, nextStartTimeRef, currentInputTrans,
                   currentOutputTrans, audioContextRef, sessionRef, streamRef,
                   activeSources, transcriptsRef, user, mounted, mic, chan,
                   ctx, now, pcVars, histVars, frameVars, creditVars, remounts, startPc2,
                   mic2>>

\* line 444 in the second call: its connect promise resolves
SessionResolvedAgain ==
    /\ startPc2 = "awaitSession"
    /\ chan2 = "open"
    /\ sessionRef' = TRUE
    /\ startPc2' = "done"
    /\ UNCHANGED <<reactVars, isEndingRef, startedRef, elapsedRef,
                   nextStartTimeRef, currentInputTrans, currentOutputTrans,
                   audioContextRef, streamRef, activeSources, timerRef,
                   transcriptsRef, envVars, pcVars, histVars, frameVars, creditVars,
                   remounts, mic2, chan2>>

\* lines 445-448 in the second call: its handshake fails
ConnectFailedAgain ==
    /\ startPc2 = "awaitSession"
    /\ chan2 = "connecting"
    /\ chan2' = "failed"
    /\ error' = TRUE
    /\ status' = "idle"
    /\ startPc2' = "failed"
    /\ UNCHANGED <<isSpeaking, elapsed, transcripts, refVars, envVars, pcVars,
                   histVars, frameVars, creditVars, remounts, mic2>>

\* line 345: the calls of getUserMedia made so far
Acquisitions ==
    (IF mic # "none" THEN 1 ELSE 0) + (IF mic2 # "none" THEN 1 ELSE 0)

\* line 356: the calls of ai.live.connect made so far
Connects ==
    (IF chan # "none" THEN 1 ELSE 0) + (IF chan2 # "none" THEN 1 ELSE 0)

\* ---------------------------------------------------------------- onmessage
\* What a LiveServerMessage can carry: an audio chunk (its decoded duration
\* in seconds, 0 for none), an input and an output transcription fragment
\* (empty for none), a turn-complete marker and an interruption marker.
AudioDurations == {1, 2}
InFragments == {<<"a">>, <<" ">>}
OutFragments == {<<"b">>, <<" ">>}
Messages ==
    [audio : {0} \cup AudioDurations,
     inT : {<<>>} \cup InFragments,
     outT : {<<>>} \cup OutFragments,
     turnComplete : BOOLEAN,
     interrupted : BOOLEAN]

\* the reply's record put before the user's
TurnRecordsReplyFirst(uText, mText) ==
    (IF mText # <<>> THEN <<[role |-> "maya", text |-> mText]>> ELSE <<>>)
    \o (IF uText # <<>> THEN <<[role |-> "user", text |-> uText]>> ELSE <<>>)

\* lines 414-417: the records one turn-complete marker appends
TurnRecords(uText, mText) ==
    (IF uText # <<>> THEN <<[role |-> "user", text |-> uText]>> ELSE <<>>)
    \o (IF mText # <<>> THEN <<[role |-> "maya", text |-> mText]>> ELSE <<>>)

\* the cursor left where it was
CursorKeptOnInterrupt == nextStartTimeRef

\* line 425: the cursor after an interruption
CursorAfterInterrupt == 0

\* the sources stopped but not forgotten
SourcesKeptOnInterrupt(sources) == sources

\* lines 423-424: the set after an interruption stopped and cleared it
SourcesAfterInterrupt(sources) == {}

\* the interruption also discarding the partial texts of the turn
HandleRestDiscardingTexts(m, sources, cursor, speaking) ==
    LET inAcc == currentInputTrans \o m.inT
        outAcc == currentOutputTrans \o m.outT
    IN  /\ IF m.turnComplete
           THEN /\ transcripts' =
                     IF Trim(inAcc) # <<>> \/ Trim(outAcc) # <<>>
                     THEN transcripts \o TurnRecords(Trim(inAcc), Trim(outAcc))
                     ELSE transcripts
                /\ currentInputTrans' = <<>>
                /\ currentOutputTrans' = <<>>
                /\ turns' = turns + 1
           ELSE /\ transcripts' = transcripts
                /\ currentInputTrans' = IF m.interrupted THEN <<>> ELSE inAcc
                /\ currentOutputTrans' = IF m.interrupted THEN <<>> ELSE outAcc
                /\ turns' = turns
        /\ IF m.interrupted
           THEN /\ activeSources' = SourcesAfterInterrupt(sources)
                /\ nextStartTimeRef' = CursorAfterInterrupt
                /\ isSpeaking' = FALSE
                /\ epoch' = epoch + 1
           ELSE /\ activeSources' = sources
                /\ nextStartTimeRef' = cursor
                /\ isSpeaking' = speaking
                /\ epoch' = epoch

\* lines 404-427: the part of onmessage after the audio branch, applied to
\* the playback state (sources, cursor, speaking) the audio branch left.
HandleRest(m, sources, cursor, speaking) ==
    LET inAcc == currentInputTrans \o m.inT
        outAcc == currentOutputTrans \o m.outT
    IN  /\ IF m.turnComplete
           THEN /\ transcripts' =
                     IF Trim(inAcc) # <<>> \/ Trim(outAcc) # <<>>
                     THEN transcripts \o TurnRecords(Trim(inAcc), Trim(outAcc))
                     ELSE transcripts
                /\ currentInputTrans' = <<>>
                /\ currentOutputTrans' = <<>>
                /\ turns' = turns + 1
           ELSE /\ transcripts' = transcripts
                /\ currentInputTrans' = inAcc
                /\ currentOutputTrans' = outAcc
                /\ turns' = turns
        /\ IF m.interrupted
           THEN /\ activeSources' = SourcesAfterInterrupt(sources)
                /\ nextStartTimeRef' = CursorAfterInterrupt
                /\ isSpeaking' = FALSE
                /\ epoch' = epoch + 1
           ELSE /\ activeSources' = sources
                /\ nextStartTimeRef' = cursor
                /\ isSpeaking' = speaking
                /\ epoch' = epoch

\* the cursor not raised to the playback clock
CursorNotRaised == nextStartTimeRef

\* line 388: the cursor is raised to the playback clock before the decode
CursorAtArrival == Max(nextStartTimeRef, now)

\* lines 383-389, and 404-427 for a message without audio: a message
\* arrives; with audio the handler suspends on the decode.
OnMessage(m) ==
    /\ chan = "open"
    /\ arrivals' = arrivals + 1
    /\ IF isEndingRef
       THEN UNCHANGED <<transcripts, currentInputTrans, currentOutputTrans,
                        turns, activeSources, nextStartTimeRef, isSpeaking,
                        epoch, decoding>>
       ELSE IF m.audio # 0
       THEN /\ nextStartTimeRef' = CursorAtArrival
            /\ decoding' = decoding \cup
                   {[arr |-> arrivals + 1, msg |-> m, at |-> now,
                     raised |-> now > nextStartTimeRef, arrEpoch |-> epoch]}
            /\ UNCHANGED <<transcripts, currentInputTrans, currentOutputTrans,
                           turns, activeSources, isSpeaking, epoch>>
       ELSE /\ HandleRest(m, activeSources, nextStartTimeRef, isSpeaking)
            /\ decoding' = decoding
    /\ UNCHANGED <<status, error, elapsed, isEndingRef, startedRef, elapsedRef,
                   audioContextRef, sessionRef, streamRef, timerRef,
                   transcriptsRef, envVars, startPc, cleanupPc, sched, clicks,
                   remoteErrors, closeEvents, teardowns, summarySets,
                   micStops, closeCalls, deductReq, deductFailed,
                   analysisCalls, endedEvents, failedStep, dropped, frameVars, strictVars,
                   creditVars>>

\* line 397: the start time handed to source.start
StartTime == nextStartTimeRef

\* the cursor not advanced by the chunk
CursorNotAdvanced(duration) == nextStartTimeRef

\* line 398: the cursor after a chunk of the given duration is scheduled
CursorAfterSchedule(duration) == nextStartTimeRef + duration

\* decodeAudioData of utils/audio-helpers: a decode in flight settles after
\* a latency that varies, so pending decodes complete in any order.
DecodeSettles(d) == d \in decoding

\* lines 389-427: the decode of a chunk completes and its handler resumes:
\* the source is started at the cursor, the cursor advances, the source
\* joins the set, and the rest of the message is handled.
DecodeDone(d) ==
    /\ DecodeSettles(d)
    /\ decoding' = decoding \ {d}
    /\ sched' = Append(sched, [arr |-> d.arr, at |-> d.at,
                               raised |-> d.raised, start |-> StartTime,
                               dur |-> d.msg.audio, epoch |-> epoch,
                               arrEpoch |-> d.arrEpoch])
    /\ HandleRest(d.msg, activeSources \cup {Len(sched) + 1},
                  CursorAfterSchedule(d.msg.audio), TRUE)
    /\ UNCHANGED <<status, error, elapsed, isEndingRef, startedRef, elapsedRef,
                   audioContextRef, sessionRef, streamRef, timerRef,
                   transcriptsRef, envVars, startPc, cleanupPc, arrivals,
                   clicks, remoteErrors, closeEvents, teardowns, summarySets,
                   micStops, closeCalls, deductReq, deductFailed,
                   analysisCalls, endedEvents, failedStep, dropped, frameVars, strictVars,
                   creditVars>>

\* the cursor advanced by the chunk that failed to decode
CursorAdvancedOnFailure(duration) == nextStartTimeRef + duration

\* lines 389-398: nothing catches a rejected decode, so the handler is left
\* before line 398 and the cursor keeps the value line 388 gave it
CursorAfterFailedDecode(duration) == nextStartTimeRef

\* lines 389-427: the decode of a chunk fails (decode throws or
\* decodeAudioData rejects); the exception leaves the async handler, so
\* neither the rest of the audio branch nor lines 404-427 run.
DecodeFailed(d) ==
    /\ DecodeSettles(d)
    /\ decoding' = decoding \ {d}
    /\ dropped' = dropped \cup {d.arr}
    /\ nextStartTimeRef' = CursorAfterFailedDecode(d.msg.audio)
    /\ UNCHANGED <<reactVars, isEndingRef, startedRef, elapsedRef,
                   currentInputTrans, currentOutputTrans, audioContextRef,
                   sessionRef, streamRef, activeSources, timerRef,
                   transcriptsRef, envVars, startPc, cleanupPc, arrivals,
                   epoch, sched, clicks, remoteErrors, closeEvents, teardowns,
                   summarySets, micStops, closeCalls, deductReq, deductFailed,
                   analysisCalls, endedEvents, turns, failedStep, frameVars, strictVars,
                   creditVars>>

\* onended without the update of the indicator
SourceEndedKeepsSpeaking(id) ==
    /\ id \in activeSources
    /\ now >= sched[id].start + sched[id].dur
    /\ activeSources' = activeSources \ {id}
    /\ isSpeaking' = isSpeaking
    /\ endedEvents' = endedEvents \cup {id}
    /\ UNCHANGED <<status, error, elapsed, transcripts, isEndingRef,
                   startedRef, elapsedRef, nextStartTimeRef,
                   currentInputTrans, currentOutputTrans, audioContextRef,
                   sessionRef, streamRef, timerRef, transcriptsRef, envVars,
                   pcVars, arrivals, epoch, sched, clicks, remoteErrors,
                   closeEvents, teardowns, summarySets, micStops, closeCalls,
                   deductReq, deductFailed, analysisCalls, turns, failedStep,
                   dropped, frameVars, strictVars,
                   creditVars>>

\* lines 393-396: onended of a source that played to its end
SourceEnded(id) ==
    /\ id \in activeSources
    /\ now >= sched[id].start + sched[id].dur
    /\ activeSources' = activeSources \ {id}
    /\ isSpeaking' = IF activeSources \ {id} = {} THEN FALSE ELSE isSpeaking
    /\ endedEvents' = endedEvents \cup {id}
    /\ UNCHANGED <<status, error, elapsed, transcripts, isEndingRef,
                   startedRef, elapsedRef, nextStartTimeRef,
                   currentInputTrans, currentOutputTrans, audioContextRef,
                   sessionRef, streamRef, timerRef, transcriptsRef, envVars,
                   pcVars, arrivals, epoch, sched, clicks, remoteErrors,
                   closeEvents, teardowns, summarySets, micStops, closeCalls,
                   deductReq, deductFailed, analysisCalls, turns, failedStep,
                   dropped, frameVars, strictVars,
                   creditVars>>

\* lines 393-396: onended of a source that was stopped (by an interruption
\* or by the teardown) before it played to its end: it is no longer in the
\* set, so the delete changes nothing
StoppedSourceEnded(id) ==
    /\ id \in DOMAIN sched
    /\ id \notin activeSources /\ id \notin endedEvents
    /\ isSpeaking' = IF activeSources = {} THEN FALSE ELSE isSpeaking
    /\ endedEvents' = endedEvents \cup {id}
    /\ UNCHANGED <<status, error, elapsed, transcripts, refVars, envVars,
                   pcVars, arrivals, epoch, sched, clicks, remoteErrors,
                   closeEvents, teardowns, summarySets, micStops, closeCalls,
                   deductReq, deductFailed, analysisCalls, turns, failedStep,
                   dropped, frameVars, strictVars,
                   creditVars>>

\* ------------------------------------------------------------ specification
\* The messages of the lifecycle specification: a chunk that also carries a
\* reply fragment and ends the turn, a bare interruption, a user fragment.
LifecycleMessages ==
    {m \in Messages :
        \/ m.audio = 1 /\ m.inT = <<>> /\ m.outT = <<"b">>
              /\ m.turnComplete /\ ~m.interrupted
        \/ m.audio = 0 /\ m.inT = <<>> /\ m.outT = <<>>
              /\ ~m.turnComplete /\ m.interrupted
        \/ m.audio = 0 /\ m.inT = <<"a">> /\ m.outT = <<>>
              /\ ~m.turnComplete /\ ~m.interrupted}

\* Audio chunks and interruption markers, without text
PlaybackMessages ==
    {m \in Messages :
        /\ m.inT = <<>> /\ m.outT = <<>> /\ ~m.turnComplete
        /\ (m.audio # 0 \/ m.interrupted)}

\* Fragments, turn-complete and interruption markers in every combination,
\* and a one-second chunk that may carry a reply fragment and end the turn
TranscriptMessages ==
    {m \in Messages :
        /\ m.audio \in {0, 1}
        /\ m.audio = 1 => (m.inT = <<>> /\ ~m.interrupted)
        /\ (m.audio # 0 \/ m.inT # <<>> \/ m.outT # <<>> \/ m.turnComplete
               \/ m.interrupted)}

\* ------------------------------------------------- the Dashboard's handleStart
\* part_006 lines 32-52: userData.credits as the Dashboard holds it, one
\* local credit for a guest, the users document for a member, no userData
\* without an identity
DashboardCredits ==
    IF user = "member" THEN balance
    ELSE IF user = "guest" THEN CreditUnit ELSE 0

\* part_006 lines 55-61: the call view is mounted only with credits above
\* zero, otherwise the low-credit modal is shown
HandleStart ==
    /\ ~mounted /\ startPc = "init" /\ ~showLowCreditModal
    /\ IF DashboardCredits <= 0
       THEN showLowCreditModal' = TRUE /\ mounted' = mounted
       ELSE showLowCreditModal' = showLowCreditModal /\ mounted' = TRUE
    /\ UNCHANGED <<reactVars, refVars, user, mic, chan, ctx, timerLive, now,
                   pcVars, histVars, frameVars, strictVars, balance,
                   unlockVars, adminVars>>

\* --------------------------------------------------------- handleUnlockReport
\* lines 155-163: the i-th invocation up to the await of getDoc. The guard
\* reads isReportUnlocked and isUnlocking of the render whose handler runs.
HandleUnlockReport(i) ==
    /\ mounted /\ status = "summary"
    /\ unlockPc[i] = "idle"
    /\ \A j \in 1..(i - 1) : unlockPc[j] # "idle"
    /\ IF \/ unlockShown.isReportUnlocked
          \/ unlockShown.isUnlocking
          \/ user = "none"
       THEN /\ unlockPc' = [unlockPc EXCEPT ![i] = "returned"]
            /\ UNCHANGED <<isUnlocking, unlockError>>
       ELSE /\ unlockPc' = [unlockPc EXCEPT ![i] = "awaitGet"]
            /\ isUnlocking' = TRUE
            /\ unlockError' = "none"
    /\ UNCHANGED <<reactVars, refVars, envVars, pcVars, histVars, frameVars,
                   strictVars, ledgerVars, isReportUnlocked, unlockShown,
                   unlockDeducted, adminVars>>

\* the committed render shows the state as it was last set
RenderCommitted ==
    unlockShown = [isReportUnlocked |-> isReportUnlocked,
                   isUnlocking |-> isUnlocking]

\* the re-render that follows setIsUnlocking / setIsReportUnlocked is
\* committed: the handler and the button now show the new state
UnlockRendered ==
    /\ ~RenderCommitted
    /\ unlockShown' = [isReportUnlocked |-> isReportUnlocked,
                       isUnlocking |-> isUnlocking]
    /\ UNCHANGED <<reactVars, refVars, envVars, pcVars, histVars, frameVars,
                   strictVars, ledgerVars, isReportUnlocked, isUnlocking,
                   unlockError, unlockPc, unlockDeducted, adminVars>>

\* lines 163-171: getDoc settled, which the network does only after the
\* pending re-render was committed. A rejection or a missing document goes
\* to catch and finally; a balance under 10 credits is refused; otherwise
\* updateDoc(increment(-10)) is issued.
UnlockGetDone(i, ok) ==
    /\ unlockPc[i] = "awaitGet"
    /\ RenderCommitted
    /\ IF ~ok \/ user # "member"
       THEN /\ unlockPc' = [unlockPc EXCEPT ![i] = "failed"]
            /\ unlockError' = "failed"
            /\ isUnlocking' = FALSE
       ELSE IF balance < UnlockCost
            THEN /\ unlockPc' = [unlockPc EXCEPT ![i] = "refused"]
                 /\ unlockError' = "insufficient"
                 /\ isUnlocking' = FALSE
            ELSE /\ unlockPc' = [unlockPc EXCEPT ![i] = "awaitUpdate"]
                 /\ UNCHANGED <<unlockError, isUnlocking>>
    /\ UNCHANGED <<reactVars, refVars, envVars, pcVars, histVars, frameVars,
                   strictVars, ledgerVars, isReportUnlocked, unlockShown,
                   unlockDeducted, adminVars>>

\* lines 171-180: updateDoc settled; the increment lands on the document as
\* it is then
UnlockUpdateDone(i, ok) ==
    /\ unlockPc[i] = "awaitUpdate"
    /\ RenderCommitted
    /\ IF ok
       THEN /\ unlockPc' = [unlockPc EXCEPT ![i] = "unlocked"]
            /\ balance' = balance - UnlockCost
            /\ unlockDeducted' = unlockDeducted + UnlockCost
            /\ isReportUnlocked' = TRUE
            /\ unlockError' = unlockError
       ELSE /\ unlockPc' = [unlockPc EXCEPT ![i] = "failed"]
            /\ unlockError' = "failed"
            /\ UNCHANGED <<balance, unlockDeducted, isReportUnlocked>>
    /\ isUnlocking' = FALSE
    /\ UNCHANGED <<reactVars, refVars, envVars, pcVars, histVars, frameVars,
                   strictVars, showLowCreditModal, unlockShown, adminVars>>

\* ------------------------------------------------------------- approveRequest
\* AdminPanel lines 206-217 and 73-76: Approve is offered for a request
\* listed as pending; the i-th invocation runs up to the await of getDoc
ApproveRequest(i) ==
    /\ reqStatus = "pending"
    /\ approvePc[i] = "idle"
    /\ \A j \in 1..(i - 1) : approvePc[j] # "idle"
    /\ approvePc' = [approvePc EXCEPT ![i] = "awaitGet"]
    /\ UNCHANGED <<reactVars, refVars, envVars, pcVars, histVars, frameVars,
                   strictVars, ledgerVars, unlockVars, reqStatus, reqCoupon,
                   grants, commissions>>

\* lines 76-82: getDoc settled; a rejection or a missing buyer goes to catch
ApproveGetDone(i, ok) ==
    /\ approvePc[i] = "awaitGet"
    /\ approvePc' = [approvePc EXCEPT
                       ![i] = IF ok THEN "awaitCredits" ELSE "failed"]
    /\ UNCHANGED <<reactVars, refVars, envVars, pcVars, histVars, frameVars,
                   strictVars, ledgerVars, unlockVars, reqStatus, reqCoupon,
                   grants, commissions>>

\* lines 79-86: the buyer's credits were incremented (or the write was
\* rejected); with a coupon code the referrer is looked up next
ApproveCreditsDone(i, ok) ==
    /\ approvePc[i] = "awaitCredits"
    /\ IF ok
       THEN /\ balance' = balance + RequestCredits
            /\ grants' = grants + 1
            /\ approvePc' = [approvePc EXCEPT
                  ![i] = IF reqCoupon THEN "awaitReferrer" ELSE "awaitStatus"]
       ELSE /\ approvePc' = [approvePc EXCEPT ![i] = "failed"]
            /\ UNCHANGED <<balance, grants>>
    /\ UNCHANGED <<reactVars, refVars, envVars, pcVars, histVars, frameVars,
                   strictVars, showLowCreditModal, unlockVars, reqStatus,
                   reqCoupon, commissions>>

\* lines 85-92: getDocs settled, with or without a referrer
ApproveReferrerDone(i, ok, found) ==
    /\ approvePc[i] = "awaitReferrer"
    /\ approvePc' = [approvePc EXCEPT
          ![i] = IF ~ok THEN "failed"
                 ELSE IF found THEN "awaitCommission" ELSE "awaitStatus"]
    /\ UNCHANGED <<reactVars, refVars, envVars, pcVars, histVars, frameVars,
                   strictVars, ledgerVars, unlockVars, reqStatus, reqCoupon,
                   grants, commissions>>

\* lines 93-96: the referrer's commission was written (or rejected)
ApproveCommissionDone(i, ok) ==
    /\ approvePc[i] = "awaitCommission"
    /\ approvePc' = [approvePc EXCEPT
                       ![i] = IF ok THEN "awaitStatus" ELSE "failed"]
    /\ commissions' = IF ok THEN commissions + 1 ELSE commissions
    /\ UNCHANGED <<reactVars, refVars, envVars, pcVars, histVars, frameVars,
                   strictVars, ledgerVars, unlockVars, reqStatus, reqCoupon,
                   grants>>

\* lines 100-108: the request was marked approved (or the write rejected)
ApproveStatusDone(i, ok) ==
    /\ approvePc[i] = "awaitStatus"
    /\ approvePc' = [approvePc EXCEPT
                       ![i] = IF ok THEN "approved" ELSE "failed"]
    /\ reqStatus' = IF ok THEN "approved" ELSE reqStatus
    /\ UNCHANGED <<reactVars, refVars, envVars, pcVars, histVars, frameVars,
                   strictVars, ledgerVars, unlockVars, reqCoupon, grants,
                   commissions>>

\* The session comes up: key present, microphone granted, channel opens.
\* (The store of line 444 into sessionRef, which only teardown reads, is
\* left to the lifecycle specification.)
Connect ==
    \/ StartCall(TRUE)
    \/ MicGranted
    \/ OnOpen

Next ==
    \/ \E hasKey \in BOOLEAN : StartCall(hasKey)
    \/ MicGranted
    \/ MicDenied
    \/ OnOpen
    \/ SessionResolved
    \/ ConnectFailed
    \/ elapsed < MaxElapsed /\ TimerTick
    \/ now < MaxLifeTime /\ ClockAdvance
    \/ TranscriptsEffect
    \/ \E m \in LifecycleMessages : arrivals < MaxMsgs /\ OnMessage(m)
    \/ \E d \in decoding : DecodeDone(d)
    \/ \E d \in decoding : DecodeFailed(d)
    \/ \E id \in activeSources : SourceEnded(id)
    \/ EndClick
    \/ OnClose
    \/ OnError
    \/ Unmount
    \/ CleanupCloseDone
    \/ \E ok \in BOOLEAN : CleanupDeductDone(ok)

Spec == Init /\ [][Next]_vars

\* The initial state with a signed-in, non-anonymous user
InitSignedIn == Init /\ user = "member"

\* The playback scheduler of an open session
NextPlayback ==
    \/ Connect
    \/ now < MaxTime /\ ClockAdvance
    \/ \E m \in PlaybackMessages : arrivals < MaxChunks /\ OnMessage(m)
    \/ \E d \in decoding : DecodeDone(d)
    \/ \E id \in activeSources : SourceEnded(id)

SpecPlayback == InitSignedIn /\ [][NextPlayback]_vars

\* The transcript assembler of an open session
NextTranscript ==
    \/ Connect
    \/ TranscriptsEffect
    \/ \E m \in TranscriptMessages : arrivals < MaxTextMsgs /\ OnMessage(m)
    \/ \E d \in decoding : DecodeDone(d)

SpecTranscript == InitSignedIn /\ [][NextTranscript]_vars

\* The messages of the scenarios of section 8 of the specification:
\* one-second chunks, alone or with a reply fragment, a user fragment, a
\* reply fragment, a turn-complete marker, an interruption marker
ScenarioMessages ==
    {m \in Messages :
        \/ /\ m.audio = 1 /\ m.inT = <<>> /\ m.outT \in {<<>>, <<"b">>}
           /\ ~m.turnComplete /\ ~m.interrupted
        \/ /\ m.audio = 0 /\ ~m.turnComplete /\ ~m.interrupted
           /\ \/ m.inT = <<"a">> /\ m.outT = <<>>
              \/ m.inT = <<>> /\ m.outT = <<"b">>
        \/ /\ m.audio = 0 /\ m.inT = <<>> /\ m.outT = <<>>
           /\ m.turnComplete # m.interrupted}

NextScenario ==
    \/ Connect
    \/ now < MaxScenarioTime /\ ClockAdvance
    \/ \E m \in ScenarioMessages : arrivals < MaxScenarioMsgs /\ OnMessage(m)
    \/ \E d \in decoding : DecodeDone(d)
    \/ \E id \in activeSources : SourceEnded(id)

SpecScenario == InitSignedIn /\ [][NextScenario]_vars

\* One-second chunks and interruption markers, alone or together
SpeakingMessages == {m \in PlaybackMessages : m.audio \in {0, 1}}

\* The playback of an open session with the end events of its sources,
\* those of stopped sources included, up to the end request
NextSpeaking ==
    \/ Connect
    \/ now < MaxSpeakTime /\ ClockAdvance
    \/ \E m \in SpeakingMessages : arrivals < MaxSpeakMsgs /\ OnMessage(m)
    \/ \E d \in decoding : DecodeDone(d)
    \/ \E id \in activeSources : SourceEnded(id)
    \/ \E id \in DOMAIN sched : StoppedSourceEnded(id)
    \/ EndClick

SpecSpeaking == InitSignedIn /\ [][NextSpeaking]_vars

\* The start of a session in a development build, up to the second
\* handleStartCall and what follows from it
NextStrict ==
    \/ \E hasKey \in BOOLEAN : StartCall(hasKey)
    \/ MicGranted
    \/ MicDenied
    \/ OnOpen
    \/ SessionResolved
    \/ ConnectFailed
    \/ Unmount
    \/ CleanupCloseDone
    \/ StrictRemount
    \/ MicGrantedAgain
    \/ MicDeniedAgain
    \/ OnOpenAgain
    \/ SessionResolvedAgain
    \/ ConnectFailedAgain

SpecStrict == Init /\ [][NextStrict]_vars

\* The microphone path of a session from its start to the end of teardown
\* (the frames are followed in this specification only)
NextCapture ==
    \/ Connect
    \/ SessionResolved
    \/ framesCaptured < MaxFrames /\ AudioProcess
    \/ EndClick
    \/ OnClose
    \/ Unmount
    \/ CleanupCloseDone

SpecCapture == Init /\ [][NextCapture]_vars

\* Chunks of one or two seconds, a chunk that carries a reply fragment and
\* ends the turn, and a chunk that carries a user fragment and interrupts
DecodeMessages ==
    {m \in Messages :
        \/ /\ m.audio # 0 /\ m.inT = <<>> /\ m.outT = <<>>
           /\ ~m.turnComplete /\ ~m.interrupted
        \/ /\ m.audio = 1 /\ m.inT = <<>> /\ m.outT = <<"b">>
           /\ m.turnComplete /\ ~m.interrupted
        \/ /\ m.audio = 1 /\ m.inT = <<"a">> /\ m.outT = <<>>
           /\ ~m.turnComplete /\ m.interrupted}

\* An open session some of whose chunks fail to decode
NextDecode ==
    \/ Connect
    \/ now < MaxDecodeTime /\ ClockAdvance
    \/ \E m \in DecodeMessages : arrivals < MaxDecodeMsgs /\ OnMessage(m)
    \/ \E d \in decoding : DecodeDone(d)
    \/ \E d \in decoding : DecodeFailed(d)

SpecDecode == InitSignedIn /\ [][NextDecode]_vars

\* A session that is opened, metered for up to MaxBillingSeconds and ended
NextBilling ==
    \/ Connect
    \/ SessionResolved
    \/ elapsed < MaxBillingSeconds /\ TimerTick
    \/ EndClick
    \/ CleanupCloseDone
    \/ \E ok \in BOOLEAN : CleanupDeductDone(ok)

SpecBilling == Init /\ [][NextBilling]_vars

\* The same session in the copies of the component whose ticker updates
\* only the displayed counter (their handleEndCall and onopen are otherwise
\* the ones above)
NextBillingStateOnly ==
    \/ Connect
    \/ SessionResolved
    \/ elapsed < MaxBillingSeconds /\ TimerTickStateOnly
    \/ EndClick
    \/ CleanupCloseDone

SpecBillingStateOnly == Init /\ [][NextBillingStateOnly]_vars

\* ---- a visit from the Dashboard to the summary, credits followed
\* longest session followed, in seconds
MaxLedgerSeconds == 61

\* the Dashboard before a call: the users document of a member holds one of
\* Balances; a guest or an absent identity has no document
InitDashboard ==
    /\ InitView
    /\ mounted = FALSE
    /\ balance \in (IF user = "member" THEN Balances ELSE {0})
    /\ reqCoupon = FALSE

NextLedger ==
    \/ HandleStart
    \/ Connect
    \/ SessionResolved
    \/ (elapsed < MaxLedgerSeconds /\ TimerTick)
    \/ EndClick
    \/ CleanupCloseDone
    \/ \E ok \in BOOLEAN : CleanupDeductDone(ok)

SpecLedger == InitDashboard /\ [][NextLedger]_vars

\* ---- the same visit with the report unlocked from the summary
\* longest session followed when the unlock is, in seconds
MaxUnlockSeconds == 1

NextUnlock ==
    \/ HandleStart
    \/ Connect
    \/ SessionResolved
    \/ (elapsed < MaxUnlockSeconds /\ TimerTick)
    \/ EndClick
    \/ CleanupCloseDone
    \/ \E ok \in BOOLEAN : CleanupDeductDone(ok)
    \/ \E i \in 1..MaxUnlocks : HandleUnlockReport(i)
    \/ UnlockRendered
    \/ \E i \in 1..MaxUnlocks, ok \in BOOLEAN : UnlockGetDone(i, ok)
    \/ \E i \in 1..MaxUnlocks, ok \in BOOLEAN : UnlockUpdateDone(i, ok)

SpecUnlock == InitDashboard /\ [][NextUnlock]_vars

\* ---- the admin approving one purchase request of a member
InitAdmin ==
    /\ InitView
    /\ user = "member"
    /\ mounted = FALSE
    /\ balance \in Balances
    /\ reqCoupon \in BOOLEAN

NextAdmin ==
    \/ \E i \in 1..MaxApprovals : ApproveRequest(i)
    \/ \E i \in 1..MaxApprovals, ok \in BOOLEAN : ApproveGetDone(i, ok)
    \/ \E i \in 1..MaxApprovals, ok \in BOOLEAN : ApproveCreditsDone(i, ok)
    \/ \E i \in 1..MaxApprovals, ok, found \in BOOLEAN :
          ApproveReferrerDone(i, ok, found)
    \/ \E i \in 1..MaxApprovals, ok \in BOOLEAN : ApproveCommissionDone(i, ok)
    \/ \E i \in 1..MaxApprovals, ok \in BOOLEAN : ApproveStatusDone(i, ok)

SpecAdmin == InitAdmin /\ [][NextAdmin]_vars

\* ------------------------------------------------------------------ claims
\* C1: whatever end triggers fire (end button, remote close, unmount) and in
\* whatever order, each step of the teardown body happens at most once: the
\* status change to summary, the microphone release, the channel close, the
\* ledger deduction request and the analysis hand-off.
C1_TeardownAtMostOnce ==
    /\ teardowns <= 1
    /\ summarySets <= 1
    /\ micStops <= 1
    /\ closeCalls <= 1
    /\ Len(deductReq) <= 1
    /\ Len(analysisCalls) <= 1

\* all three triggers have fired and every teardown step has happened
C1_Witness ==
    /\ clicks >= 1 /\ closeEvents >= 1 /\ ~mounted
    /\ teardowns = 1 /\ summarySets = 1 /\ micStops = 1 /\ closeCalls = 1
    /\ Len(deductReq) = 1 /\ Len(analysisCalls) = 1

\* C2: as soon as one of user-end, remote-close or remote-error has fired,
\* the teardown body has run, exactly once (a remote error alone included).
C2_TeardownOnEveryEndEvent ==
    (clicks > 0 \/ closeEvents > 0 \/ remoteErrors > 0) => teardowns = 1

\* C3: once teardown has run to its end and handleStartCall has settled, no
\* acquired microphone stream is still live and no opened channel is still
\* open, whatever state the end was requested in.
C3_NoLeakAfterTeardown ==
    (cleanupPc = "done" /\ startPc \in {"done", "failed"})
        => (mic # "live" /\ chan # "open")

programVars == <<reactVars, refVars, envVars, pcVars>>

\* C5: a step that handles an interruption marker leaves ActiveSourceSet
\* empty and the cursor zero; taken in the state an interruption leaves
\* (empty set, zero cursor, indicator off) by a message that carries only
\* the marker, it changes nothing, so twice in a row is the same as once.
C5_InterruptionResets ==
    [][ epoch' = epoch + 1 =>
          /\ activeSources' = {}
          /\ nextStartTimeRef' = 0
          /\ (/\ activeSources = {} /\ nextStartTimeRef = 0 /\ ~isSpeaking
              /\ decoding' = decoding)
                 => UNCHANGED programVars ]_vars

\* two interruptions handled one after the other, the first of which
\* emptied a set with a source that had not finished
C5_Witness ==
    /\ epoch = 2 /\ Len(sched) = 1 /\ sched[1].epoch = 0
    /\ endedEvents = {} /\ activeSources = {} /\ nextStartTimeRef = 0

\* the three one-second chunks of the scenario have been scheduled, with no
\* interruption, each later one having arrived no later than the cursor
C9_Scenario ==
    /\ arrivals = 3 /\ Len(sched) = 3 /\ epoch = 0
    /\ \A i \in 1..3 : sched[i].dur = 1
    /\ \A i \in 1..3 : sched[i].arr # 1 => ~sched[i].raised

\* the playback clock's reading when the first chunk arrived
C9_FirstArrivalAt == sched[CHOOSE i \in 1..3 : sched[i].arr = 1].at

\* C9 as stated: after the third chunk is scheduled the cursor is 3
C9_CursorIsThree == C9_Scenario => nextStartTimeRef = 3

\* C9 as amended: after the third chunk is scheduled the cursor is the
\* playback clock's reading at the first chunk's arrival plus 3, and the
\* set is empty once the three sources have reported their end.
C9_CursorIsArrivalPlusThree ==
    C9_Scenario =>
        /\ nextStartTimeRef = C9_FirstArrivalAt + 3
        /\ endedEvents = {1, 2, 3} => activeSources = {}

\* the scenario, played to the end of the third chunk
C9_Witness ==
    /\ C9_Scenario
    /\ endedEvents = {1, 2, 3} /\ activeSources = {}
    /\ nextStartTimeRef = C9_FirstArrivalAt + 3

\* a step that runs the transcript part of onmessage on the message m
HandlesTranscriptOf(m) ==
    \/ m.audio = 0 /\ ~isEndingRef /\ OnMessage(m)
    \/ \E d \in decoding : d.msg = m /\ DecodeDone(d)

\* the records a turn boundary owes for the two trimmed accumulators
C6_Expected(u, v) ==
    IF u # <<>> /\ v # <<>>
    THEN <<[role |-> "user", text |-> u], [role |-> "maya", text |-> v]>>
    ELSE IF u # <<>> THEN <<[role |-> "user", text |-> u]>>
    ELSE IF v # <<>> THEN <<[role |-> "maya", text |-> v]>>
    ELSE <<>>

IsPrefix(s, t) == Len(s) <= Len(t) /\ SubSeq(t, 1, Len(s)) = s

C10_InterruptionAddsNoTurn ==
    /\ [][ (epoch' = epoch + 1 /\ turns' = turns) =>
             /\ activeSources' = {}
             /\ transcripts' = transcripts
             /\ IsPrefix(currentOutputTrans, currentOutputTrans') ]_vars
    /\ [][ transcripts' # transcripts =>
             /\ turns' = turns + 1
             /\ \A i \in DOMAIN transcripts' : transcripts'[i].text # <<>> ]_vars

\* the reply's chunk and fragment arrived, the interruption emptied the set,
\* and a later turn-complete marker put the truncated reply in the transcript
C10_Witness ==
    /\ Len(sched) = 1 /\ activeSources = {} /\ epoch = 1 /\ turns = 1
    /\ sched[1].epoch = 0
    /\ transcripts = <<[role |-> "maya", text |-> <<"b">>]>>

\* C7: every amount requested from the ledger is the elapsed seconds divided
\* by 60, exactly: after 90 seconds it is 3/2, neither 90 nor 2.
C7_FractionalMinutes ==
    \A i \in DOMAIN deductReq :
        /\ deductReq[i].den > 0
        /\ deductReq[i].num * 60 = deductReq[i].den * elapsed
        /\ elapsed = 90 => deductReq[i] = [num |-> 3, den |-> 2]

\* a signed-in session of 90 seconds has requested its deduction
C7_Witness ==
    /\ user = "member" /\ elapsed = 90
    /\ deductReq = <<[num |-> 3, den |-> 2]>>

\* C8: once performCleanup has passed its ledger step, one deduction has
\* been requested if the identity is signed in, not anonymous, and the
\* elapsed time is positive, and none otherwise; none is requested before,
\* never a second one; after a failed deduction the hand-off to the
\* analysis has still happened and the teardown stands.
C8_DeductionPolicy ==
    /\ Len(deductReq) <= 1
    /\ IF cleanupPc \in {"awaitDeduct", "done"}
       THEN Len(deductReq) = 1 <=> (user = "member" /\ elapsed > 0)
       ELSE Len(deductReq) = 0
    /\ deductFailed > 0 =>
          /\ deductFailed = 1 /\ Len(deductReq) = 1
          /\ cleanupPc = "done" /\ Len(analysisCalls) = 1
          /\ teardowns = 1 /\ isEndingRef /\ ~timerLive

\* a signed-in session whose deduction failed, with its teardown complete
C8_Witness ==
    /\ user = "member" /\ deductFailed = 1 /\ Len(deductReq) = 1
    /\ cleanupPc = "done" /\ Len(analysisCalls) = 1 /\ micStops = 1

\* C11: while the teardown has not started, a denied microphone acquisition
\* leaves the status permission_denied (after idle and connecting); and
\* whenever the microphone was denied, an end request closes no channel.
C11_DeniedIsPermissionDenied ==
    mic = "denied" =>
        /\ ~isEndingRef => status = "permission_denied"
        /\ closeCalls = 0 /\ chan = "none"

\* C12: whichever step of handleEndCall failed, every later step has still
\* run: after a failed stop of a source or close of an audio context
\* performCleanup has been entered (channel close, ledger, analysis), after
\* a failed stop of a source the audio contexts are closed, and after a
\* failed ledger deduction the microphone is released and the transcript
\* has been handed to the analysis.
C12_LaterStepsRun ==
    /\ failedStep # "none" => cleanupPc # "none"
    /\ failedStep = "source" => (ctx = "closed" /\ ~audioContextRef)
    /\ deductFailed > 0 =>
          (cleanupPc = "done" /\ Len(analysisCalls) = 1 /\ mic # "live")

\* C13: in every step taken once the teardown has started, ActiveSourceSet
\* is left empty, no chunk is scheduled, the cursor does not move, the
\* speaking indicator is not switched on, and the accumulators and the
\* transcript do not change (a handler resumed from its decode included).
C13_QuietAfterTeardown ==
    [][ isEndingRef =>
          /\ activeSources' = {}
          /\ sched' = sched
          /\ nextStartTimeRef' = nextStartTimeRef
          /\ (isSpeaking' => isSpeaking)
          /\ UNCHANGED <<currentInputTrans, currentOutputTrans,
                         transcripts>> ]_vars

\* C14: a chunk is started and added to ActiveSourceSet only if no
\* interruption has been handled since its message arrived: every scheduled
\* chunk was scheduled under the interruption count of its arrival.
C14_NoStartAfterInterruption ==
    \A i \in DOMAIN sched : sched[i].epoch = sched[i].arrEpoch

\* C15: of two scheduled chunks with no interruption handled between the
\* arrival of the first and the scheduling of both, the one whose message
\* arrived first was given a start time no later than the other's.
C15_ArrivalOrder ==
    \A i, j \in DOMAIN sched :
        (/\ sched[i].arr < sched[j].arr
         /\ sched[i].arrEpoch = sched[j].epoch
         /\ sched[i].epoch = sched[j].epoch)
            => sched[i].start <= sched[j].start

\* C16: the status summary is terminal: no step taken with the status
\* summary leaves any other status.
C16_SummaryIsTerminal ==
    [][ status = "summary" => status' = "summary" ]_vars

\* the arrival number of the message whose handler runs in this step
C17_HandledArrival ==
    IF arrivals' # arrivals
    THEN arrivals'
    ELSE (CHOOSE d \in decoding : d \notin decoding').arr

\* C17: when a turn-complete marker is handled, every fragment of a message
\* that arrived before the marker's message is already in the accumulators
\* that are flushed: no such message is still awaiting its decode with a
\* fragment that would be added to the accumulators of a later turn.
C17_TurnFlushesEarlierFragments ==
    [][ turns' = turns + 1 =>
          \A d \in decoding' :
              d.arr < C17_HandledArrival =>
                  (d.msg.inT = <<>> /\ d.msg.outT = <<>>) ]_vars

\* C18: the step in which the teardown body runs leaves ActiveSourceSet
\* empty and the playback cursor zero, as a handled interruption does.
C18_TeardownCancelsAll ==
    [][ teardowns' = teardowns + 1 =>
          (activeSources' = {} /\ nextStartTimeRef' = 0) ]_vars

\* C19: a chunk whose decode failed is never scheduled or added to
\* ActiveSourceSet; the step in which it fails changes neither the status,
\* the teardown latch, the schedule, the set nor the cursor; and the chunks
\* scheduled without an interruption between them, before and after the
\* failure, do not overlap.
C19_FailedChunkDropped ==
    /\ [](\A i \in DOMAIN sched : sched[i].arr \notin dropped)
    /\ [](\A i, j \in DOMAIN sched :
            (i < j /\ sched[i].epoch = sched[j].epoch)
                => sched[j].start >= sched[i].start + sched[i].dur)
    /\ [][ dropped' # dropped =>
             /\ UNCHANGED <<status, isEndingRef, sched, activeSources>>
             /\ nextStartTimeRef' = nextStartTimeRef ]_vars

\* the first chunk was scheduled, the second failed to decode, and the third
\* was scheduled right behind the first
C19_Witness ==
    /\ dropped = {2} /\ Len(sched) = 2 /\ epoch = 0
    /\ sched[1].arr = 1 /\ sched[2].arr = 3
    /\ sched[2].start = sched[1].start + sched[1].dur
    /\ status = "active" /\ ~isEndingRef

\* C20: when the decode of a message's chunk fails, the rest of the message
\* still takes effect in that step: its fragments are added to the
\* accumulators (or flushed with them), its turn-complete marker ends the
\* turn and its interruption marker is handled.
C20_RestHandledAfterFailedDecode ==
    [][ \A d \in decoding : DecodeFailed(d) =>
          /\ d.msg.turnComplete => turns' = turns + 1
          /\ d.msg.interrupted => epoch' = epoch + 1
          /\ ~d.msg.turnComplete =>
                /\ currentInputTrans' = currentInputTrans \o d.msg.inT
                /\ currentOutputTrans' = currentOutputTrans \o d.msg.outT
       ]_vars

\* the messages that carry an interruption marker and no text or turn end
C21_BareInterruptions ==
    {m \in Messages :
        m.interrupted /\ ~m.turnComplete /\ m.inT = <<>> /\ m.outT = <<>>}

\* C21: a step that handles an interruption marker leaves the status, the
\* teardown latch, the elapsed counter and its ticker, the microphone
\* stream and the channel unchanged; when the marker's message carries no
\* fragment and no turn-complete marker it also leaves the transcript and
\* both accumulators unchanged.
C21_InterruptionFrame ==
    /\ [][ epoch' = epoch + 1 =>
             UNCHANGED <<status, isEndingRef, elapsed, elapsedRef, timerRef,
                         timerLive, streamRef, mic, sessionRef, chan>> ]_vars
    /\ [][ \A m \in C21_BareInterruptions : HandlesTranscriptOf(m) =>
             UNCHANGED <<transcripts, currentInputTrans,
                         currentOutputTrans>> ]_vars

\* an interruption emptied the set while the partial reply text of the
\* turn was held, in an active session
C21_Witness ==
    /\ epoch = 1 /\ Len(sched) = 1 /\ sched[1].epoch = 0
    /\ activeSources = {} /\ endedEvents = {}
    /\ currentOutputTrans = <<"b">> /\ status = "active" /\ mic = "live"
    /\ chan = "open" /\ ~isEndingRef

\* C22: the elapsed counter is 0 as long as the channel has not reported
\* open; it changes only by growing by exactly 1, and only while the status
\* is active and the teardown has not started; once the teardown has
\* started no ticker runs (a late channel open included).
C22_ElapsedCounter ==
    /\ [](chan \in {"none", "connecting", "failed"} => elapsed = 0)
    /\ [](isEndingRef => ~timerLive)
    /\ [][ elapsed' # elapsed =>
             (elapsed' = elapsed + 1 /\ status = "active" /\ ~isEndingRef)
       ]_vars

\* a session that ticked once and was then torn down
C22_Witness ==
    /\ elapsed = 1 /\ elapsedRef = 1 /\ isEndingRef /\ ~timerLive
    /\ cleanupPc = "done" /\ status = "summary"

\* C23: the seconds used for billing (elapsedRef) are the ticks counted and
\* shown (elapsed), and once performCleanup has passed its ledger step a
\* session of a signed-in identity with at least one tick has requested the
\* deduction for exactly those seconds.
C23_BilledSecondsAreTicks ==
    /\ elapsedRef = elapsed
    /\ (cleanupPc \in {"awaitDeduct", "done"} /\ elapsed > 0
            /\ user = "member")
          => deductReq = <<CreditsToDeduct(elapsed)>>

\* C24: the steps of one teardown come in the order ticker, microphone,
\* playback, channel close, ledger deduction, analysis: the channel close
\* is called, and the deduction requested, only with the latch set, the
\* ticker stopped and the microphone released; the step that runs the
\* teardown body leaves ActiveSourceSet empty; nothing is requested from
\* the ledger or handed to the analysis while the channel close is pending;
\* and the transcript is handed to the analysis only when the teardown has
\* started and the deduction attempt, if any, has settled.
C24_TeardownOrder ==
    /\ [](closeCalls > 0 => (isEndingRef /\ ~timerLive /\ mic # "live"))
    /\ [](Len(deductReq) > 0 =>
            /\ isEndingRef /\ ~timerLive /\ mic # "live"
            /\ cleanupPc \in {"awaitDeduct", "done"})
    /\ [](cleanupPc = "awaitClose" =>
            (Len(deductReq) = 0 /\ Len(analysisCalls) = 0))
    /\ [](cleanupPc = "awaitDeduct" => Len(analysisCalls) = 0)
    /\ [](Len(analysisCalls) > 0 => (isEndingRef /\ cleanupPc = "done"))
    /\ [][ teardowns' = teardowns + 1 => activeSources' = {} ]_vars

\* a teardown of a billable session has closed the channel, requested the
\* deduction and is waiting for it, with nothing handed to the analysis yet
C24_Witness ==
    /\ teardowns = 1 /\ micStops = 1 /\ closeCalls = 1 /\ ~timerLive
    /\ cleanupPc = "awaitDeduct" /\ Len(deductReq) = 1
    /\ Len(analysisCalls) = 0

\* C25: the frames handed to the channel and those waiting for the session
\* are, in capture order and each exactly once, the frames captured before
\* the teardown started: all frames captured so far while the teardown has
\* not started, and no frame more once it has.
C25_FramesForwardedInOrder ==
    /\ [](LET handed == framesSent \o framesQueued
          IN  /\ Len(handed) <= framesCaptured
              /\ handed = [i \in 1..Len(handed) |-> i]
              /\ ~isEndingRef => Len(handed) = framesCaptured)
    /\ [][ isEndingRef =>
             Len(framesSent') + Len(framesQueued')
                = Len(framesSent) + Len(framesQueued) ]_vars
    /\ [][ IsPrefix(framesSent, framesSent') ]_vars

\* one frame waited for the session and was sent when it resolved, one was
\* sent at once, and one was captured after the teardown started
C25_Witness ==
    /\ framesCaptured = 3 /\ framesSent = <<1, 2>> /\ framesQueued = <<>>
    /\ isEndingRef /\ startPc = "done"

\* C26: while the teardown has not started the speaking indicator is true
\* exactly when ActiveSourceSet is not empty; a source enters the set only
\* in the step that schedules it, and leaves it only by reporting its end
\* or by an interruption (or the teardown) emptying the set.
C26_SpeakingIffSources ==
    /\ [](~isEndingRef => (isSpeaking <=> activeSources # {}))
    /\ [][ \A id \in activeSources' \ activeSources :
             Len(sched') = Len(sched) + 1 /\ id = Len(sched') ]_vars
    /\ [][ \A id \in activeSources \ activeSources' :
             \/ endedEvents' = endedEvents \cup {id}
             \/ activeSources' = {} /\ epoch' = epoch + 1
             \/ activeSources' = {} /\ teardowns' = teardowns + 1 ]_vars

\* the first chunk played to its end; the second came with an interruption
\* marker, was stopped by it as soon as it was scheduled, and reported its
\* end afterwards
C26_Witness ==
    /\ ~isEndingRef /\ epoch = 1 /\ Len(sched) = 2
    /\ now >= sched[1].start + sched[1].dur
    /\ now < sched[2].start + sched[2].dur
    /\ endedEvents = {1, 2} /\ activeSources = {} /\ ~isSpeaking

\* C27: per mounted call view at most one microphone acquisition and at
\* most one channel connect are ever started.
C27_SingleAcquisition ==
    Acquisitions <= 1 /\ Connects <= 1

\* C28: a user's credit balance never becomes negative: the call view is
\* entered only with credits above zero, and a deduction requested at the
\* end of a session is never more than the balance of that moment.
C28_BalanceNeverNegative ==
    /\ [](balance >= 0)
    /\ [][(~mounted /\ mounted') => DashboardCredits > 0]_vars
    /\ [][Len(deductReq') > Len(deductReq) =>
            LET c == deductReq'[Len(deductReq')]
            IN  (c.num * CreditUnit) \div c.den <= balance]_vars

\* C29: unlocking the report deducts 10 credits at most once per session:
\* whatever the interleaving of handleUnlockReport invocations, the total
\* deducted is 0 or 10 credits, the report is unlocked exactly when 10 were
\* deducted, and an invocation that fails or is refused changes neither the
\* balance nor the lock.
C29_UnlockDeductsOnce ==
    /\ [](unlockDeducted \in {0, UnlockCost})
    /\ [](isReportUnlocked <=> unlockDeducted > 0)
    /\ [][\A i \in 1..MaxUnlocks :
            (unlockPc'[i] \in {"failed", "refused"} /\ unlockPc[i] # unlockPc'[i])
               => (balance' = balance /\ isReportUnlocked' = isReportUnlocked)]_vars

\* no invocation of approveRequest is in flight
C30_Settled ==
    \A i \in 1..MaxApprovals : approvePc[i] \in {"idle", "approved", "failed"}

\* C30: a purchase request grants its credits to the buyer at most once, and
\* once every approveRequest invocation has finished the credits were
\* granted exactly when the request is approved.
C30_GrantedOnceWithApproval ==
    /\ grants <= 1
    /\ C30_Settled => (grants = 1 <=> reqStatus = "approved")

====
